---- MODULE Spec2Model ----
(***************************************************************************)
(* A model of the echo server of src/main.go: the accept loop of main with *)
(* its bounded worker pool, and the per-connection session run by worker,  *)
(* handleConnection and handleEcho.                                        *)
(*                                                                         *)
(* Bytes are sequences of one-character strings.  Two more tokens, XRun    *)
(* and SpRun, each stand for a block of RunLen equal bytes (the letter x,  *)
(* the space), so that a read of maxMessageSize bytes is a short sequence. *)
(***************************************************************************)
EXTENDS Naturals, Integers, Sequences, FiniteSets, TLC

\* ------------------------------------------------------------------ bounds
MaxConns == 2      \* connections the peers of the server open
MaxWorkers == 2    \* largest value of the -workers flag explored
MaxServerReads == 1 \* reads that deliver data, over the sessions of the server
MaxReads == 2      \* reads that deliver data, in the single session
MaxDispatched == 1 \* lines the peer of the dispatcher's session sends
RunLen == 1020     \* bytes a run token stands for

\* ------------------------------------------------------- program constants
maxMessageSize == 1024

Conns == 1..MaxConns

\* -------------------------------------------------------------------- bytes
XRun == "x.."
SpRun == " .."

Width(t) == IF t \in {XRun, SpRun} THEN RunLen ELSE 1

RECURSIVE NumBytes(_)
NumBytes(b) == IF b = <<>> THEN 0 ELSE Width(Head(b)) + NumBytes(Tail(b))

\* unicode.IsSpace, on the characters of the model's alphabet
IsSpace(c) == c \in {" ", "\t", "\n", "\r", SpRun}

\* unicode.ToLower, on the characters of the model's alphabet
LowerChar(c) ==
    CASE c = "H" -> "h"
      [] c = "E" -> "e"
      [] c = "L" -> "l"
      [] c = "O" -> "o"
      [] c = "B" -> "b"
      [] c = "Y" -> "y"
      [] c = "Q" -> "q"
      [] c = "U" -> "u"
      [] c = "I" -> "i"
      [] c = "T" -> "t"
      [] c = "M" -> "m"
      [] c = "C" -> "c"
      [] OTHER -> c

ToLower(b) == [i \in 1..Len(b) |-> LowerChar(b[i])]

RECURSIVE TrimLeft(_)
TrimLeft(b) ==
    IF b # <<>> /\ IsSpace(Head(b)) THEN TrimLeft(Tail(b)) ELSE b

RECURSIVE TrimRight(_)
TrimRight(b) ==
    IF b # <<>> /\ IsSpace(b[Len(b)]) THEN TrimRight(SubSeq(b, 1, Len(b) - 1)) ELSE b

\* a trim that leaves the line terminator in place
TrimSpaceLeftOnly(b) == TrimLeft(b)

TrimSpace(b) == TrimRight(TrimLeft(b))

HasPrefix(b, p) == Len(b) >= Len(p) /\ SubSeq(b, 1, Len(p)) = p

\* strings.Fields: the maximal runs of non-space characters, in order
RECURSIVE FieldsFrom(_, _, _)
FieldsFrom(b, cur, acc) ==
    IF b = <<>>
    THEN IF cur = <<>> THEN acc ELSE Append(acc, cur)
    ELSE IF IsSpace(Head(b))
         THEN FieldsFrom(Tail(b), <<>>, IF cur = <<>> THEN acc ELSE Append(acc, cur))
         ELSE FieldsFrom(Tail(b), Append(cur, Head(b)), acc)

Fields(b) == FieldsFrom(b, <<>>, <<>>)

\* strings.Join
RECURSIVE Join(_, _)
Join(fs, sep) ==
    IF fs = <<>> THEN <<>>
    ELSE IF Len(fs) = 1 THEN fs[1]
    ELSE fs[1] \o sep \o Join(Tail(fs), sep)

\* ---------------------------------------------------------- protocol text
\* A message written to the peer: a fixed notice (tag names it, data is
\* empty; the /time response is the notice "Current time" whatever the clock
\* reads) or tag "text" with the bytes before the trailing newline.
Notice(tag) == [tag |-> tag, data |-> <<>>]
Text(b) == [tag |-> "text", data |-> b]

S_hello == <<"h", "e", "l", "l", "o">>
S_bye == <<"b", "y", "e">>
S_slash == <<"/">>
S_time == <<"/", "t", "i", "m", "e">>
S_quit == <<"/", "q", "u", "i", "t">>
S_echo == <<"/", "e", "c", "h", "o">>

\* a command arm that compares the first field as it was typed
CommandResultCaseSensitive(message) ==
    LET fields == Fields(message)
        cmd == fields[1]
    IN CASE cmd = S_time -> [resp |-> <<Notice("Current time")>>, quit |-> FALSE]
         [] cmd = S_quit -> [resp |-> <<Notice("Closing connection...")>>, quit |-> TRUE]
         [] cmd = S_echo ->
              IF Len(fields) > 1
              THEN [resp |-> <<Text(Join(Tail(fields), <<" ">>))>>, quit |-> FALSE]
              ELSE [resp |-> <<Notice("Usage: /echo <message>")>>, quit |-> FALSE]
         [] OTHER -> [resp |-> <<Notice("Unknown command.")>>, quit |-> FALSE]

\* The command-based arm of handleClientMessage (message starts with "/").
CommandResult(message) ==
    LET fields == Fields(message)
        cmd == ToLower(fields[1])
    IN CASE cmd = S_time -> [resp |-> <<Notice("Current time")>>, quit |-> FALSE]
         [] cmd = S_quit -> [resp |-> <<Notice("Closing connection...")>>, quit |-> TRUE]
         [] cmd = S_echo ->
              IF Len(fields) > 1
              THEN [resp |-> <<Text(Join(Tail(fields), <<" ">>))>>, quit |-> FALSE]
              ELSE [resp |-> <<Notice("Usage: /echo <message>")>>, quit |-> FALSE]
         [] OTHER -> [resp |-> <<Notice("Unknown command.")>>, quit |-> FALSE]

\* handleClientMessage: the messages it writes to the peer, and whether it
\* returns the error "client disconnected".
handleClientMessage(message) ==
    LET lower == ToLower(message)
    IN CASE lower = S_hello -> [resp |-> <<Notice("Hi there!")>>, quit |-> FALSE]
         [] lower = S_bye -> [resp |-> <<Notice("Goodbye!")>>, quit |-> TRUE]
         [] lower = <<>> -> [resp |-> <<Notice("Say something...")>>, quit |-> FALSE]
         [] OTHER ->
              IF HasPrefix(message, S_slash)
              THEN CommandResult(message)
              ELSE [resp |-> <<>>, quit |-> FALSE]

\* -------------------------------------------------------------------- state
VARIABLES
    maxWorkers,  \* the -workers flag, the capacity of workerPool
    workerPool,  \* number of tokens in the buffered channel workerPool
    wg,          \* the WaitGroup counter
    pc,          \* pc[c]: where connection c is in main / worker / handleEcho
    trimmed,     \* trimmed[c]: handleEcho's local trimmed
    err,         \* err[c]: the error handleEcho returns
    deadline,    \* deadline[c]: the read deadline armed on the stream
    broken,      \* broken[c]: writes to the stream of c fail from now on
    connOpen,    \* connOpen[c]: the stream has not been closed by the server
    fileOpen,    \* fileOpen[c]: the log file of the session is open
    io           \* io[c]: the I/O calls made on behalf of c, in order

vars == <<maxWorkers, workerPool, wg, pc, trimmed, err, deadline, broken,
          connOpen, fileOpen, io>>

\* An entry of io[c].  op is the call: "read" (conn.Read in handleEcho),
\* "flush" (conn.Read in flushExtraInput), "write" (conn.Write), "arm"
\* (conn.SetReadDeadline), "open" (newClientLogger), "log" (logger.Log),
\* "dispatch" (handleClientMessage called), "closelog" (logger.Close),
\* "close" (conn.Close) and "release" (<-workerPool).
Ev(op, tag, data, ok) == [op |-> op, tag |-> tag, data |-> data, ok |-> ok]

Wr(m, ok) == Ev("write", m.tag, m.data, ok)

\* the outcomes a conn.Write on the stream of c can have
WriteOutcomes(c) == IF broken[c] THEN {FALSE} ELSE BOOLEAN

Record(c, evs) == io' = [io EXCEPT ![c] = io[c] \o evs]

Goto(c, l) == pc' = [pc EXCEPT ![c] = l]

Fail(c, e) == err' = [err EXCEPT ![c] = e]

\* data reads made so far, over all sessions
RECURSIVE DataReads(_)
DataReads(S) ==
    IF S = {} THEN 0
    ELSE LET c == CHOOSE x \in S : TRUE
         IN Len(SelectSeq(io[c], LAMBDA e : e.op \in {"read", "flush"} /\ e.ok))
            + DataReads(S \ {c})

Init ==
    /\ maxWorkers \in 1..MaxWorkers
    /\ workerPool = 0
    /\ wg = 0
    /\ pc = [c \in Conns |-> "idle"]
    /\ trimmed = [c \in Conns |-> <<>>]
    /\ err = [c \in Conns |-> "nil"]
    /\ deadline = [c \in Conns |-> "none"]
    /\ broken = [c \in Conns |-> FALSE]
    /\ connOpen = [c \in Conns |-> FALSE]
    /\ fileOpen = [c \in Conns |-> FALSE]
    /\ io = [c \in Conns |-> <<>>]

\* ---------------------------------------------------------------- main loop
\* listener.Accept returns connection c
Accept(c) ==
    /\ pc[c] = "idle"
    /\ \A d \in Conns : pc[d] # "accepted"
    /\ Goto(c, "accepted")
    /\ connOpen' = [connOpen EXCEPT ![c] = TRUE]
    /\ UNCHANGED <<maxWorkers, workerPool, wg, trimmed, err, deadline, broken,
                   fileOpen, io>>

\* a select that still sends when the buffer holds maxWorkers tokens
CanAcquireOffByOne == workerPool <= maxWorkers

\* a select that gives up one token short of the capacity
CanAcquireEarlyFull == workerPool + 1 < maxWorkers

\* the select can send on workerPool: the channel's buffer is not full
CanAcquire == workerPool < maxWorkers

\* case workerPool <- struct{}{}: wg.Add(1); go worker(...)
Admit(c) ==
    /\ pc[c] = "accepted"
    /\ CanAcquire
    /\ workerPool' = workerPool + 1
    /\ wg' = wg + 1
    /\ Goto(c, "worker")
    /\ UNCHANGED <<maxWorkers, trimmed, err, deadline, broken, connOpen,
                   fileOpen, io>>

\* default: write the capacity notice, logRejection, conn.Close
Reject(c) ==
    /\ pc[c] = "accepted"
    /\ ~CanAcquire
    /\ \E ok \in WriteOutcomes(c) :
         /\ Record(c, <<Wr(Notice("Server is at max capacity. Try again later."), ok),
                        Ev("close", "conn", <<>>, TRUE)>>)
         /\ broken' = [broken EXCEPT ![c] = ~ok]
    /\ connOpen' = [connOpen EXCEPT ![c] = FALSE]
    /\ Goto(c, "rejected")
    /\ UNCHANGED <<maxWorkers, workerPool, wg, trimmed, err, deadline, fileOpen>>

\* ------------------------------------------------------------------ session
\* a handleEcho that goes on without a log when it cannot open one
OpenLoggerIgnoreError(c) ==
    /\ pc[c] = "worker"
    /\ \E ok \in BOOLEAN :
         /\ Record(c, <<Ev("open", "logger", <<>>, ok)>>)
         /\ fileOpen' = [fileOpen EXCEPT ![c] = ok]
    /\ Goto(c, "arm")
    /\ UNCHANGED <<maxWorkers, workerPool, wg, trimmed, err, deadline, broken,
                   connOpen>>

\* worker -> handleConnection -> logConnection -> handleEcho: newClientLogger
OpenLogger(c) ==
    /\ pc[c] = "worker"
    /\ \E ok \in BOOLEAN :
         /\ Record(c, <<Ev("open", "logger", <<>>, ok)>>)
         /\ fileOpen' = [fileOpen EXCEPT ![c] = ok]
         /\ IF ok
            THEN Goto(c, "arm") /\ UNCHANGED err
            ELSE Goto(c, "logError") /\ Fail(c, "loginit")
    /\ UNCHANGED <<maxWorkers, workerPool, wg, trimmed, deadline, broken, connOpen>>

\* head of the loop of handleEcho: conn.SetReadDeadline(now + 30s)
ArmDeadline(c) ==
    /\ pc[c] = "arm"
    /\ deadline' = [deadline EXCEPT ![c] = "30s"]
    /\ Record(c, <<Ev("arm", "30s", <<>>, TRUE)>>)
    /\ Goto(c, "read")
    /\ UNCHANGED <<maxWorkers, workerPool, wg, trimmed, err, broken, connOpen,
                   fileOpen>>

\* a handleEcho that leaves the empty line to handleClientMessage
AfterReadNoEmptyCheck(b) ==
    IF NumBytes(b) = maxMessageSize THEN "oversize" ELSE "dispatch"

\* a handleEcho without the size check, which treats a full buffer as a line
AfterReadNoSizeCheck(b) == IF TrimSpace(b) = <<>> THEN "prompt" ELSE "dispatch"

\* where handleEcho goes with the n bytes b of a read
AfterRead(b) ==
    IF NumBytes(b) = maxMessageSize THEN "oversize"
    ELSE IF TrimSpace(b) = <<>> THEN "prompt"
    ELSE "dispatch"

\* conn.Read in handleEcho returns the bytes b
ReadData(c, b) ==
    /\ pc[c] = "read"
    /\ NumBytes(b) \in 1..maxMessageSize
    /\ Record(c, <<Ev("read", "data", b, TRUE)>>)
    /\ Goto(c, AfterRead(b))
    /\ trimmed' = [trimmed EXCEPT ![c] =
                     IF NumBytes(b) = maxMessageSize THEN @ ELSE TrimSpace(b)]
    /\ UNCHANGED <<maxWorkers, workerPool, wg, err, deadline, broken, connOpen,
                   fileOpen>>

\* conn.Read in handleEcho returns an error: the deadline passed ("timeout"),
\* the peer closed the stream ("EOF"), or another fault ("fault")
ReadError(c, e) ==
    /\ pc[c] = "read"
    /\ Record(c, <<Ev("read", e, <<>>, FALSE)>>)
    /\ Fail(c, e)
    /\ broken' = [broken EXCEPT ![c] = @ \/ e = "fault"]
    /\ Goto(c, "closeLogger")
    /\ UNCHANGED <<maxWorkers, workerPool, wg, trimmed, deadline, connOpen,
                   fileOpen>>

ReadTimeout(c) == ReadError(c, "timeout")

ReadEOF(c) == ReadError(c, "EOF")

ReadFault(c) == ReadError(c, "fault")

\* n == maxMessageSize: write the oversize notice, then enter flushExtraInput,
\* which arms the 200ms deadline
Oversize(c) ==
    /\ pc[c] = "oversize"
    /\ \E ok \in WriteOutcomes(c) :
         /\ Record(c, <<Wr(Notice("Message cannot be more than 1024 bytes"), ok),
                        Ev("arm", "200ms", <<>>, TRUE)>>)
         /\ broken' = [broken EXCEPT ![c] = ~ok]
    /\ deadline' = [deadline EXCEPT ![c] = "200ms"]
    /\ Goto(c, "flush")
    /\ UNCHANGED <<maxWorkers, workerPool, wg, trimmed, err, connOpen, fileOpen>>

\* a handleEcho that arms the 30s deadline before its loop only, so that the
\* read after a recovery runs under the deadline flushExtraInput left
AfterFlushStraightToRead(b) == IF NumBytes(b) < maxMessageSize THEN "read" ELSE "flush"

\* where flushExtraInput goes with the n bytes b of a read
AfterFlush(b) == IF NumBytes(b) < maxMessageSize THEN "arm" ELSE "flush"

\* Time passes while flushExtraInput runs: half of the 200ms go by, then the
\* rest.  A conn.Read called once the deadline has passed returns the
\* deadline's error at once, whatever the peer has sent.
Elapse(c) ==
    /\ pc[c] = "flush"
    /\ deadline[c] \in {"200ms", "100ms"}
    /\ deadline' = [deadline EXCEPT ![c] = IF @ = "200ms" THEN "100ms" ELSE "0ms"]
    /\ UNCHANGED <<maxWorkers, workerPool, wg, pc, trimmed, err, broken, connOpen,
                   fileOpen, io>>

\* a flushExtraInput that arms the deadline again after every read it drops
DeadlineRearmedAfterDiscard(c) == "200ms"

\* the deadline once flushExtraInput has dropped a read: the one it armed on
\* entry, which its loop does not touch
DeadlineAfterDiscard(c) == deadline[c]

\* conn.Read in flushExtraInput returns the bytes b, which are dropped
FlushData(c, b) ==
    /\ pc[c] = "flush"
    /\ deadline[c] # "0ms"
    /\ NumBytes(b) \in 1..maxMessageSize
    /\ Record(c, <<Ev("flush", "data", b, TRUE)>>)
    /\ Goto(c, AfterFlush(b))
    /\ deadline' = [deadline EXCEPT ![c] = DeadlineAfterDiscard(c)]
    /\ UNCHANGED <<maxWorkers, workerPool, wg, trimmed, err, broken, connOpen,
                   fileOpen>>

\* conn.Read in flushExtraInput fills the buffer once more, after the
\* MaxReads reads that io keeps: n == maxMessageSize, so the loop goes on
FlushMore(c) ==
    /\ pc[c] = "flush"
    /\ deadline[c] # "0ms"
    /\ DataReads(Conns) >= MaxReads
    /\ deadline' = [deadline EXCEPT ![c] = DeadlineAfterDiscard(c)]
    /\ UNCHANGED <<maxWorkers, workerPool, wg, pc, trimmed, err, broken, connOpen,
                   fileOpen, io>>

\* conn.Read in flushExtraInput returns another error, which handleEcho returns
FlushError(c, e) ==
    /\ pc[c] = "flush"
    /\ deadline[c] # "0ms"
    /\ Record(c, <<Ev("flush", e, <<>>, FALSE)>>)
    /\ Fail(c, e)
    /\ broken' = [broken EXCEPT ![c] = @ \/ e = "fault"]
    /\ Goto(c, "closeLogger")
    /\ UNCHANGED <<maxWorkers, workerPool, wg, trimmed, deadline, connOpen,
                   fileOpen>>

\* a flushExtraInput that returns the deadline error like any other
FlushTimeoutAsError(c) == FlushError(c, "timeout")

\* conn.Read in flushExtraInput meets the 200ms deadline: done flushing
FlushTimeout(c) ==
    /\ pc[c] = "flush"
    /\ deadline[c] = "0ms"
    /\ Record(c, <<Ev("flush", "timeout", <<>>, FALSE)>>)
    /\ Goto(c, "arm")
    /\ UNCHANGED <<maxWorkers, workerPool, wg, trimmed, err, deadline, broken,
                   connOpen, fileOpen>>

FlushEOF(c) == FlushError(c, "EOF")

FlushFault(c) == FlushError(c, "fault")

\* trimmed == "": write the prompt and continue
Prompt(c) ==
    /\ pc[c] = "prompt"
    /\ \E ok \in WriteOutcomes(c) :
         /\ Record(c, <<Wr(Notice("Say something..."), ok)>>)
         /\ broken' = [broken EXCEPT ![c] = ~ok]
    /\ Goto(c, "arm")
    /\ UNCHANGED <<maxWorkers, workerPool, wg, trimmed, err, deadline, connOpen,
                   fileOpen>>

\* a handleEcho that drops the error handleClientMessage returns
AfterDispatchIgnoreQuit(r) == "log"

\* where handleEcho goes when handleClientMessage has returned
AfterDispatch(r) == IF r.quit THEN "closeLogger" ELSE "log"

\* handleClientMessage(conn, trimmed): its writes, whose errors it drops
Dispatch(c) ==
    /\ pc[c] = "dispatch"
    /\ LET r == handleClientMessage(trimmed[c])
       IN /\ \E ok \in WriteOutcomes(c) :
               /\ Record(c, <<Ev("dispatch", "call", trimmed[c], TRUE)>>
                            \o [i \in 1..Len(r.resp) |-> Wr(r.resp[i], ok)])
               /\ broken' = [broken EXCEPT ![c] = @ \/ (r.resp # <<>> /\ ~ok)]
          /\ Goto(c, AfterDispatch(r))
          /\ err' = [err EXCEPT ![c] = IF r.quit THEN "disconnect" ELSE @]
    /\ UNCHANGED <<maxWorkers, workerPool, wg, trimmed, deadline, connOpen,
                   fileOpen>>

\* a handleEcho that echoes a line without appending it to the log
LogSkipped(c) ==
    /\ pc[c] = "log"
    /\ Goto(c, "echo")
    /\ UNCHANGED <<maxWorkers, workerPool, wg, trimmed, err, deadline, broken,
                   connOpen, fileOpen, io>>

\* a handleEcho that drops the error of logger.Log: the append is attempted,
\* and the line is echoed whether or not it succeeded
LogBestEffort(c) ==
    /\ pc[c] = "log"
    /\ \E ok \in BOOLEAN : Record(c, <<Ev("log", "entry", trimmed[c], ok)>>)
    /\ Goto(c, "echo")
    /\ UNCHANGED <<maxWorkers, workerPool, wg, trimmed, err, deadline, broken,
                   connOpen, fileOpen>>

\* logger.Log(trimmed)
Log(c) ==
    /\ pc[c] = "log"
    /\ \E ok \in BOOLEAN :
         /\ Record(c, <<Ev("log", "entry", trimmed[c], ok)>>)
         /\ IF ok
            THEN Goto(c, "echo") /\ UNCHANGED err
            ELSE Goto(c, "closeLogger") /\ Fail(c, "logfail")
    /\ UNCHANGED <<maxWorkers, workerPool, wg, trimmed, deadline, broken,
                   connOpen, fileOpen>>

\* conn.Write(trimmed + "\n"), the one write whose error handleEcho returns
Echo(c) ==
    /\ pc[c] = "echo"
    /\ \E ok \in WriteOutcomes(c) :
         /\ Record(c, <<Wr(Text(trimmed[c]), ok)>>)
         /\ broken' = [broken EXCEPT ![c] = ~ok]
         /\ IF ok
            THEN Goto(c, "arm") /\ UNCHANGED err
            ELSE Goto(c, "closeLogger") /\ Fail(c, "fault")
    /\ UNCHANGED <<maxWorkers, workerPool, wg, trimmed, deadline, connOpen,
                   fileOpen>>

\* a handleEcho that closes the logger by hand on the paths it remembers
CloseLoggerUnlessLogFailed(c) ==
    /\ pc[c] = "closeLogger"
    /\ fileOpen' = [fileOpen EXCEPT ![c] = (err[c] = "logfail")]
    /\ Record(c, IF err[c] = "logfail" THEN <<>>
                 ELSE <<Ev("closelog", "logger", <<>>, TRUE)>>)
    /\ Goto(c, "logError")
    /\ UNCHANGED <<maxWorkers, workerPool, wg, trimmed, err, deadline, broken,
                   connOpen>>

\* handleEcho returns: defer logger.Close()
CloseLogger(c) ==
    /\ pc[c] = "closeLogger"
    /\ fileOpen' = [fileOpen EXCEPT ![c] = FALSE]
    /\ Record(c, <<Ev("closelog", "logger", <<>>, TRUE)>>)
    /\ Goto(c, "logError")
    /\ UNCHANGED <<maxWorkers, workerPool, wg, trimmed, err, deadline, broken,
                   connOpen>>

\* a logError that tells the peer about every error
logErrorAlways(e) == <<Notice("Connection timeout. Disconnecting...")>>

\* a logError that only prints to the console
logErrorSilent(e) == <<>>

\* the messages logError writes to the peer for the error e
logError(e) ==
    IF e = "timeout" THEN <<Notice("Connection timeout. Disconnecting...")>> ELSE <<>>

\* handleConnection: if err != nil { logError(conn, err) }
LogError(c) ==
    /\ pc[c] = "logError"
    /\ LET ms == IF err[c] # "nil" THEN logError(err[c]) ELSE <<>>
       IN \E ok \in WriteOutcomes(c) :
            /\ Record(c, [i \in 1..Len(ms) |-> Wr(ms[i], ok)])
            /\ broken' = [broken EXCEPT ![c] = @ \/ (ms # <<>> /\ ~ok)]
    /\ Goto(c, "closeConn")
    /\ UNCHANGED <<maxWorkers, workerPool, wg, trimmed, err, deadline, connOpen,
                   fileOpen>>

\* a handleConnection that leaves the stream open for its caller to close
CloseConnLeftToCaller(c) ==
    /\ pc[c] = "closeConn"
    /\ Goto(c, "release")
    /\ UNCHANGED <<maxWorkers, workerPool, wg, trimmed, err, deadline, broken,
                   connOpen, fileOpen, io>>

\* handleConnection returns: defer conn.Close(), then logDisconnection
CloseConn(c) ==
    /\ pc[c] = "closeConn"
    /\ connOpen' = [connOpen EXCEPT ![c] = FALSE]
    /\ Record(c, <<Ev("close", "conn", <<>>, TRUE)>>)
    /\ Goto(c, "release")
    /\ UNCHANGED <<maxWorkers, workerPool, wg, trimmed, err, deadline, broken,
                   fileOpen>>

\* a worker that releases after handleConnection instead of in a defer, and
\* returns early when the session never started reading
ReleaseUnlessLoggerFailed(c) ==
    /\ pc[c] = "release"
    /\ workerPool > 0
    /\ workerPool' = IF err[c] = "loginit" THEN workerPool ELSE workerPool - 1
    /\ wg' = wg - 1
    /\ Record(c, IF err[c] = "loginit" THEN <<>>
                 ELSE <<Ev("release", "slot", <<>>, TRUE)>>)
    /\ Goto(c, "done")
    /\ UNCHANGED <<maxWorkers, trimmed, err, deadline, broken, connOpen, fileOpen>>

\* worker returns: <-workerPool, wg.Done()
Release(c) ==
    /\ pc[c] = "release"
    /\ workerPool > 0
    /\ workerPool' = workerPool - 1
    /\ wg' = wg - 1
    /\ Record(c, <<Ev("release", "slot", <<>>, TRUE)>>)
    /\ Goto(c, "done")
    /\ UNCHANGED <<maxWorkers, trimmed, err, deadline, broken, connOpen, fileOpen>>

\* ------------------------------------------------------------------- inputs
Fill(k, ch) == [i \in 1..k |-> ch]

\* maxMessageSize bytes: a run, filler, and the given last bytes
Full(run, ch, last) ==
    <<run>> \o Fill(maxMessageSize - RunLen - Len(last), ch) \o last

\* what the peers of the server send: a plain line
ServerInputs == { <<"h", "i", "\n">> }

\* what the peer of a single session sends
Lines ==
    { <<" ", "h", "i", " ", "y", "o", " ", "\n">>,
      <<" ", "\t", "\r", "\n">>,
      <<"H", "e", "L", "L", "o", "\r", "\n">>,
      S_bye \o <<"\n">>,
      <<"/", "Q", "u", "i", "t", " ", "y", "o", "\n">>,
      S_echo \o <<" ", "f", "o", "o", " ", "b", "a", "r", "\n">>,
      S_echo \o <<" ", "\n">>,
      <<"/", "y", "o", "\n">>,
      <<XRun, "\n">>,
      Full(XRun, "x", <<>>),
      Full(XRun, "x", <<"\n">>),
      Full(SpRun, " ", <<"\n">>) }

\* the first words of the lines handed to the dispatcher
Tokens ==
    { <<"h", "e", "l", "l", "o">>,
      <<"H", "E", "L", "L", "O">>,
      <<"H", "e", "L", "L", "o">>,
      <<"b", "y", "e">>,
      <<"B", "Y", "E">>,
      <<"B", "y", "e">>,
      <<"/", "t", "i", "m", "e">>,
      <<"/", "T", "I", "M", "E">>,
      <<"/", "q", "u", "i", "t">>,
      <<"/", "Q", "U", "I", "T">>,
      <<"/", "Q", "u", "i", "t">>,
      <<"/", "e", "c", "h", "o">>,
      <<"/", "E", "C", "H", "O">>,
      <<"/", "y", "o">>,
      <<"/">>,
      <<"/", "q", "u", "i", "t", "x">>,
      <<"/", "t", "i", "m", "e", "r">>,
      <<"h", "i">>,
      <<"h", "e", "l", "l", "o", "b", "y", "e">>,
      <<"x", "/", "q", "u", "i", "t">> }

\* what follows the first word
Tails == { <<>>, <<" ", "y", "o">>, <<"\t", " ", "b", "y", "e">> }

\* what the peer of the dispatcher's session sends: lines with text in them
Messages == {tok \o tl \o <<"\n">> : tok \in Tokens, tl \in Tails}

\* ----------------------------------------------------------- specifications
Main(c) == Accept(c) \/ Admit(c) \/ Reject(c)

\* the steps of a session whose peer sends lines shorter than the buffer
Session(c) ==
    \/ OpenLogger(c) \/ ArmDeadline(c)
    \/ ReadTimeout(c) \/ ReadEOF(c) \/ ReadFault(c)
    \/ Dispatch(c) \/ Log(c) \/ Echo(c)
    \/ CloseLogger(c) \/ LogError(c) \/ CloseConn(c) \/ Release(c)

\* the steps of a session that take an empty or an oversize read further
Recovery(c) ==
    \/ Prompt(c)
    \/ Oversize(c) \/ Elapse(c) \/ FlushMore(c)
    \/ FlushTimeout(c) \/ FlushEOF(c) \/ FlushFault(c)

\* The server and MaxConns peers, which send at most MaxServerReads lines of
\* ServerInputs in all.
Next ==
    \E c \in Conns :
        \/ Main(c)
        \/ Session(c)
        \/ /\ DataReads(Conns) < MaxServerReads
           /\ \E b \in ServerInputs : ReadData(c, b)

Spec == Init /\ [][Next]_vars

\* a server with room for the one session
InitSession == Init /\ maxWorkers = 1

\* One connection, admitted, whose peer sends at most MaxReads of Lines.
NextSession ==
    \/ Accept(1) \/ Admit(1)
    \/ Session(1)
    \/ Recovery(1)
    \/ /\ DataReads(Conns) < MaxReads
       /\ \E b \in Lines : ReadData(1, b) \/ FlushData(1, b)

SessionSpec == InitSession /\ [][NextSession]_vars

\* One session whose peer sends at most MaxDispatched of Messages, each of
\* which handleEcho hands to handleClientMessage.
NextDispatcher ==
    \/ Accept(1) \/ Admit(1)
    \/ Session(1)
    \/ /\ DataReads(Conns) < MaxDispatched
       /\ \E b \in Messages : ReadData(1, b)

DispatcherSpec == InitSession /\ [][NextDispatcher]_vars

\* the steps from the return of handleEcho to the return of worker: none of
\* them waits for the peer or for another goroutine
Teardown(c) == CloseLogger(c) \/ LogError(c) \/ CloseConn(c) \/ Release(c)

\* one session, with its goroutine getting to run its teardown
FairSessionSpec == SessionSpec /\ WF_vars(Teardown(1))

\* one session in which, besides, time passes during an overflow recovery and
\* a conn.Read called after its deadline returns
RecoverySpec ==
    FairSessionSpec /\ WF_vars(Elapse(1)) /\ WF_vars(FlushTimeout(1))

\* =================================================================== claims
\* the calls of kind op made on behalf of c
Calls(c, op) == SelectSeq(io[c], LAMBDA e : e.op = op)

Count(c, op) == Len(Calls(c, op))

\* what a call was, whatever its outcome
Shape(e) == <<e.op, e.tag, e.data>>

Shapes(s) == [i \in 1..Len(s) |-> Shape(s[i])]

IsPrefix(s, t) == Len(s) <= Len(t) /\ SubSeq(t, 1, Len(s)) = s

\* the calls made after the i-th
Rest(c, i) == SubSeq(io[c], i + 1, Len(io[c]))

\* c was granted a slot
Admitted(c) == pc[c] \notin {"idle", "accepted", "rejected"}

\* the sessions that hold a slot: granted one, and not yet released
HeldSlots == {c \in Conns : Admitted(c) /\ Count(c, "release") = 0}

CapacityNotice == <<"write", "Server is at max capacity. Try again later.", <<>>>>

\* C1: in every reachable state the number of held slots (granted by the
\* accept loop and not yet released by a worker) is at most maxWorkers, and
\* it is the number of tokens in workerPool.
C1_HeldAtMostCapacity ==
    /\ Cardinality(HeldSlots) <= maxWorkers
    /\ Cardinality(HeldSlots) = workerPool

\* all slots are held by running sessions while another connection waits
\* for the admission decision
C1_Witness ==
    /\ Cardinality(HeldSlots) = maxWorkers
    /\ \E c \in Conns : pc[c] = "accepted"

\* C2 (decision): a connection leaving the admission decision is rejected
\* exactly when all maxWorkers slots are held at that moment; and a rejected
\* connection stays rejected, with no further call made for it.
C2_Decision ==
    \A c \in Conns :
        /\ (pc[c] = "accepted" /\ pc'[c] # "accepted")
              => /\ pc'[c] \in {"rejected", "worker"}
                 /\ (pc'[c] = "rejected") <=> (Cardinality(HeldSlots) = maxWorkers)
        /\ pc[c] = "rejected" => (pc'[c] = "rejected" /\ io'[c] = io[c])

\* C2 (outcome): all that is ever done for a rejected connection is to write
\* the capacity notice and close its stream: no slot, no logger, no read.
C2_Outcome ==
    \A c \in Conns :
        pc[c] = "rejected"
            => /\ Shapes(io[c]) = <<CapacityNotice, <<"close", "conn", <<>>>>>>
               /\ ~connOpen[c]
               /\ ~fileOpen[c]
               /\ c \notin HeldSlots

\* C2: a newly accepted connection is rejected exactly when all slots are
\* held at the admission decision; it is sent the capacity notice and closed,
\* and it never acquires a slot, starts a session, opens a logger, or is
\* queued or retried.
C2_RejectedIffFull == [][C2_Decision]_vars /\ []C2_Outcome

\* a connection was rejected while another one holds the only slot
C2_Witness ==
    \E c, d \in Conns :
        /\ pc[c] = "rejected"
        /\ d \in HeldSlots
        /\ maxWorkers = 1

\* the steps that follow the return of handleEcho
TearingDown(c) == pc[c] \in {"closeLogger", "logError", "closeConn", "release"}

\* C3: a session that was granted a slot releases it exactly once on every
\* exit path: never twice, exactly once when the worker has returned, and the
\* release is never blocked.
C3_ReleasedExactlyOnce ==
    \A c \in Conns :
        /\ Count(c, "release") <= 1
        /\ Count(c, "release") = 1 <=> pc[c] = "done"
        /\ pc[c] = "release" => ENABLED Release(c)
        /\ workerPool = Cardinality(HeldSlots)

\* a session that failed during overflow recovery has returned its slot
C3_Witness ==
    /\ pc[1] = "done"
    /\ Count(1, "release") = 1
    /\ \E i \in 1..Len(io[1]) : io[1][i].op = "flush" /\ io[1][i].tag = "fault"

\* C4: when a session whose read loop ran is destroyed, its stream has been
\* closed exactly once and its logger exactly once; neither is ever closed
\* twice, and a logger that was never opened is never closed.
C4_ClosedExactlyOnce ==
    \A c \in Conns :
        /\ Count(c, "close") <= 1
        /\ Count(c, "closelog") <= 1
        /\ pc[c] = "done" =>
              /\ Count(c, "close") = 1
              /\ ~connOpen[c]
              /\ ~fileOpen[c]
              /\ Count(c, "closelog") = Len(SelectSeq(io[c], LAMBDA e : e.op = "open" /\ e.ok))
              /\ Count(c, "arm") > 0 => Count(c, "closelog") = 1

\* a session whose log append failed is destroyed, both closed once
C4_Witness ==
    /\ pc[1] = "done"
    /\ err[1] = "logfail"
    /\ Count(1, "close") = 1
    /\ Count(1, "closelog") = 1

\* -------------------------------------------------------- lines and answers
\* the i-th call made for c is a read of the main loop that returned bytes
IsLineRead(c, i) == io[c][i].op = "read" /\ io[c][i].tag = "data"

\* the read filled the whole buffer
FillsBuffer(b) == NumBytes(b) = maxMessageSize

\* the text of b without the white space around it, by position
Core(b) ==
    LET ns == {k \in 1..Len(b) : ~IsSpace(b[k])}
    IN IF ns = {} THEN <<>>
       ELSE SubSeq(b, CHOOSE k \in ns : \A m \in ns : k <= m,
                      CHOOSE k \in ns : \A m \in ns : k >= m)

\* the first white-space-separated word of a line
FirstWord(b) ==
    LET sp == {k \in 1..Len(b) : IsSpace(b[k])}
    IN IF sp = {} THEN b
       ELSE SubSeq(b, 1, (CHOOSE k \in sp : \A m \in sp : k <= m) - 1)

\* the calls made for the i-th call, a read: those up to the next arming of
\* the 30s deadline, which starts the next read
Answer(c, i) ==
    LET arms == {j \in (i + 1)..Len(io[c]) : Shape(io[c][j]) = <<"arm", "30s", <<>>>>}
    IN IF arms = {} THEN Rest(c, i)
       ELSE SubSeq(io[c], i + 1, (CHOOSE j \in arms : \A m \in arms : j <= m) - 1)

\* the session has answered its i-th call and is back at the head of the loop
BackToReading(c, i) ==
    /\ Len(Answer(c, i)) < Len(Rest(c, i)) \/ pc[c] = "arm"
    /\ Len(Answer(c, i)) = Len(Rest(c, i)) =>
          (connOpen[c] /\ fileOpen[c] /\ err[c] = "nil")

PromptWrite == <<"write", "Say something...", <<>>>>
OversizeWrite == <<"write", "Message cannot be more than 1024 bytes", <<>>>>
TimeoutWrite == <<"write", "Connection timeout. Disconnecting...", <<>>>>
Arm200 == <<"arm", "200ms", <<>>>>
Arm30 == <<"arm", "30s", <<>>>>

\* The read is answered by the prompt and nothing else: no log entry, no
\* call of the dispatcher, and the session goes back to reading.
PromptedOnly(c, i) ==
    /\ i = Len(io[c]) => pc[c] = "prompt"
    /\ i < Len(io[c]) =>
          /\ Shapes(Answer(c, i)) = <<PromptWrite>>
          /\ BackToReading(c, i)

\* C5 as stated: every received input whose trimmed content is empty is
\* answered by the prompt "Say something...", with no log entry and no call
\* of the command dispatcher, and the session stays in Reading.
C5_EmptyInputPrompted ==
    \A c \in Conns : \A i \in 1..Len(io[c]) :
        (IsLineRead(c, i) /\ Core(io[c][i].data) = <<>>) => PromptedOnly(c, i)

\* C5: every received input of fewer than maxMessageSize bytes whose trimmed
\* content is empty is answered by the prompt "Say something...", with no log
\* entry and no call of the command dispatcher, and the session stays in
\* Reading.
C5_ShortEmptyInputPrompted ==
    \A c \in Conns : \A i \in 1..Len(io[c]) :
        (IsLineRead(c, i) /\ ~FillsBuffer(io[c][i].data)
                          /\ Core(io[c][i].data) = <<>>) => PromptedOnly(c, i)

\* a read of white space alone, shorter than the buffer, has been answered
C5_Witness ==
    \E i \in 1..Len(io[1]) :
        /\ IsLineRead(1, i)
        /\ io[1][i].data = <<" ", "\t", "\r", "\n">>
        /\ Shapes(Answer(1, i)) = <<PromptWrite>>
        /\ pc[1] = "read"

\* the i-th call, a read in flushExtraInput, ends the recovery
EndsFlush(e) == e.tag = "timeout" \/ (e.tag = "data" /\ ~FillsBuffer(e.data))

\* C6: a main-loop read of exactly maxMessageSize bytes is answered by the
\* oversize notice and the arming of the 200ms deadline, and then, unless a
\* read of the recovery fails with an error other than the deadline's, only
\* by reads that drop what they return; a short read or the expiry of the
\* 200ms deadline takes the session back to Reading with its stream and
\* logger open, where the 30s deadline is armed and the next line is read.
C6_OversizeRecovers ==
    \A c \in Conns : \A i \in 1..Len(io[c]) :
        /\ (IsLineRead(c, i) /\ FillsBuffer(io[c][i].data)) =>
              /\ i = Len(io[c]) => pc[c] = "oversize"
              /\ i < Len(io[c]) =>
                    /\ IsPrefix(<<OversizeWrite, Arm200>>, Shapes(Answer(c, i)))
                    /\ \/ \E j \in 3..Len(Answer(c, i)) :
                              Answer(c, i)[j].tag \in {"EOF", "fault"}
                       \/ \A j \in 3..Len(Answer(c, i)) : Answer(c, i)[j].op = "flush"
        /\ io[c][i].op = "flush" =>
              /\ i > 1
              /\ \/ Shape(io[c][i - 1]) = Arm200
                 \/ io[c][i - 1].op = "flush" /\ ~EndsFlush(io[c][i - 1])
              /\ EndsFlush(io[c][i]) =>
                    /\ i = Len(io[c]) =>
                          (pc[c] = "arm" /\ connOpen[c] /\ fileOpen[c] /\ err[c] = "nil")
                    /\ i < Len(io[c]) => Shape(io[c][i + 1]) = Arm30
                    /\ i + 1 = Len(io[c]) => (pc[c] = "read" /\ connOpen[c])
              /\ (io[c][i].tag = "data" /\ FillsBuffer(io[c][i].data)) =>
                    /\ i = Len(io[c]) => pc[c] = "flush"
                    /\ i < Len(io[c]) => io[c][i + 1].op = "flush"

\* after an oversize read and its recovery a later line was read and echoed
C6_Witness ==
    \E i, j, k \in 1..Len(io[1]) :
        /\ i < j /\ j < k
        /\ IsLineRead(1, i) /\ FillsBuffer(io[1][i].data)
        /\ IsLineRead(1, j) /\ ~FillsBuffer(io[1][j].data)
        /\ io[1][k] = Ev("write", "text", Core(io[1][j].data), TRUE)

\* the line matches no token of the dispatcher: it is neither "hello" nor
\* "bye" in any letter case, and it does not start with "/"
IsPlain(line) ==
    /\ line # <<>>
    /\ line[1] # "/"
    /\ ToLower(line) \notin {S_hello, S_bye}

DispatchCall(line) == <<"dispatch", "call", line>>
LogCall(line) == <<"log", "entry", line>>
TextWrite(line) == <<"write", "text", line>>

\* C7 as stated: every received input whose trimmed text is non-empty and
\* matches no recognized command is answered by that trimmed text, written to
\* the peer, and that text is appended to the session's log exactly once.
C7_PlainLineEchoedAndLogged ==
    \A c \in Conns : \A i \in 1..Len(io[c]) :
        (IsLineRead(c, i) /\ IsPlain(Core(io[c][i].data))) =>
            LET line == Core(io[c][i].data)
                ans == Answer(c, i)
            IN /\ i = Len(io[c]) => pc[c] = "dispatch"
               /\ Len(ans) = 1 => pc[c] = "log"
               /\ Len(ans) = 2 => pc[c] = "echo"
               /\ \A j \in 1..Len(ans) :
                     j <= 3 => Shape(ans[j])
                                 = <<DispatchCall(line), LogCall(line), TextWrite(line)>>[j]
               /\ Len(ans) >= 2 => ans[2].ok

\* C7: every received input of fewer than maxMessageSize bytes whose trimmed
\* text is non-empty and matches no recognized command is handed to the
\* dispatcher, which writes nothing, and then appended to the log, once; if
\* the append succeeds that trimmed text is written to the peer, once, and
\* nothing else is; if it fails nothing is written and the session ends.
C7_ShortPlainLineLoggedThenEchoed ==
    \A c \in Conns : \A i \in 1..Len(io[c]) :
        (IsLineRead(c, i) /\ ~FillsBuffer(io[c][i].data)
                          /\ IsPlain(Core(io[c][i].data))) =>
            LET line == Core(io[c][i].data)
                ans == Answer(c, i)
            IN /\ i = Len(io[c]) => pc[c] = "dispatch"
               /\ Len(ans) = 1 => pc[c] = "log"
               /\ Len(ans) >= 1 => Shape(ans[1]) = DispatchCall(line)
               /\ Len(ans) >= 2 => Shape(ans[2]) = LogCall(line)
               /\ (Len(ans) >= 2 /\ ans[2].ok) =>
                     /\ Len(ans) = 2 => pc[c] = "echo"
                     /\ Len(ans) >= 3 => Shape(ans[3]) = TextWrite(line)
                     /\ (Len(ans) >= 3 /\ ans[3].ok) =>
                           (Len(ans) = 3 /\ BackToReading(c, i))
                     /\ (Len(ans) >= 3 /\ ~ans[3].ok) => err[c] = "fault"
               /\ (Len(ans) >= 2 /\ ~ans[2].ok) => err[c] = "logfail"
               /\ \A j \in 4..Len(ans) : ans[j].op \in {"closelog", "close", "release"}
               /\ (Len(ans) >= 2 /\ ~ans[2].ok) =>
                     \A j \in 3..Len(ans) : ans[j].op \in {"closelog", "close", "release"}

\* the line " hi yo " was read, logged once and echoed without the white
\* space around it
C7_Witness ==
    \E i \in 1..Len(io[1]) :
        /\ IsLineRead(1, i)
        /\ io[1][i].data = <<" ", "h", "i", " ", "y", "o", " ", "\n">>
        /\ Answer(1, i) = << Ev("dispatch", "call", <<"h", "i", " ", "y", "o">>, TRUE),
                             Ev("log", "entry", <<"h", "i", " ", "y", "o">>, TRUE),
                             Ev("write", "text", <<"h", "i", " ", "y", "o">>, TRUE) >>
        /\ pc[1] = "read"

\* the first word of the line is /echo, in any letter case
IsEchoCommand(line) == ToLower(FirstWord(line)) = S_echo

\* the response the claim gives for an /echo line
EchoResponse(line) ==
    IF Len(Fields(line)) > 1
    THEN TextWrite(Join(Tail(Fields(line)), <<" ">>))
    ELSE <<"write", "Usage: /echo <message>", <<>>>>

\* C8 as stated: what the peer is sent for a line whose first field is "/echo"
\* is the further fields rejoined with single spaces, or the usage message
\* when there is none, and nothing else; and when no call fails the session
\* stays open and goes back to Reading.
C8_EchoCommandAnswered ==
    \A c \in Conns : \A i \in 1..Len(io[c]) :
        (IsLineRead(c, i) /\ ~FillsBuffer(io[c][i].data)
                          /\ IsEchoCommand(Core(io[c][i].data))) =>
            LET line == Core(io[c][i].data)
                ans == Answer(c, i)
                writes == SelectSeq(ans, LAMBDA e : e.op = "write" /\ e.ok)
            IN /\ IsPrefix(Shapes(writes), <<EchoResponse(line)>>)
               /\ (\A j \in 1..Len(ans) : ans[j].ok) =>
                     \A j \in 1..Len(ans) : ans[j].op \in {"dispatch", "write", "log"}

\* the line is "bye", or its first word is "/quit", in any letter case
IsQuit(line) == ToLower(line) = S_bye \/ ToLower(FirstWord(line)) = S_quit

Farewell(line) ==
    IF ToLower(line) = S_bye
    THEN <<"write", "Goodbye!", <<>>>>
    ELSE <<"write", "Closing connection...", <<>>>>

TeardownCalls ==
    << <<"closelog", "logger", <<>>>>, <<"close", "conn", <<>>>>,
       <<"release", "slot", <<>>>> >>

\* C9: once the session has read "bye" or "/quit" it writes the farewell
\* ("Goodbye!" / "Closing connection...") and all it does afterwards is to
\* close the logger, close the stream and release the slot, each step able to
\* run: no further read, no timeout notice, no log entry.
C9_QuitTerminates ==
    \A c \in Conns : \A i \in 1..Len(io[c]) :
        (IsLineRead(c, i) /\ ~FillsBuffer(io[c][i].data)
                          /\ IsQuit(Core(io[c][i].data))) =>
            LET line == Core(io[c][i].data)
                rest == Shapes(Rest(c, i))
            IN /\ i = Len(io[c]) => pc[c] = "dispatch"
               /\ i < Len(io[c]) =>
                     /\ IsPrefix(<<DispatchCall(line), Farewell(line)>>, rest)
                     /\ IsPrefix(SubSeq(rest, 3, Len(rest)), TeardownCalls)
                     /\ err[c] = "disconnect"
                     /\ TearingDown(c) \/ pc[c] = "done"
                     /\ TearingDown(c) => ENABLED Teardown(c)
                     /\ pc[c] = "done" <=> Len(rest) = 5
                     /\ pc[c] = "done" =>
                           (~connOpen[c] /\ ~fileOpen[c] /\ c \notin HeldSlots
                              /\ workerPool = Cardinality(HeldSlots))

\* "/Quit yo" was read after another line, and the session is gone: farewell
\* written, stream closed, slot released
C9_Witness ==
    \E i \in 2..Len(io[1]) :
        /\ IsLineRead(1, i)
        /\ io[1][i].data = <<"/", "Q", "u", "i", "t", " ", "y", "o", "\n">>
        /\ \E j \in 1..(i - 1) : IsLineRead(1, j)
        /\ i + 2 <= Len(io[1])
        /\ Shape(io[1][i + 2]) = <<"write", "Closing connection...", <<>>>>
        /\ pc[1] = "done"
        /\ workerPool = 0

\* C10 (order): a main-loop read that ends on the 30s deadline is followed by
\* exactly: the logger closed, the timeout notice written, the stream closed,
\* the slot released; so the notice is written while the stream is open.
C10_Order ==
    \A c \in Conns : \A i \in 1..Len(io[c]) :
        (io[c][i].op = "read" /\ io[c][i].tag = "timeout") =>
            /\ Shape(io[c][i - 1]) = Arm30
            /\ IsPrefix(Shapes(Rest(c, i)),
                        << <<"closelog", "logger", <<>>>>, TimeoutWrite,
                           <<"close", "conn", <<>>>>, <<"release", "slot", <<>>>> >>)
            /\ Len(Rest(c, i)) < 3 => connOpen[c]
            /\ Len(Rest(c, i)) = 4 <=> pc[c] = "done"

\* C10: if a main-loop read ends because the 30s deadline passed, the timeout
\* notice is written to the peer before the stream is closed, and the session
\* then terminates: its stream is closed and its slot is released, eventually.
C10_TimeoutNotified ==
    /\ []C10_Order
    /\ \A c \in Conns :
          (err[c] = "timeout") ~> (pc[c] = "done" /\ ~connOpen[c] /\ c \notin HeldSlots)

\* a session that timed out after echoing a line is gone, the notice written
C10_Witness ==
    \E c \in Conns :
        /\ err[c] = "timeout"
        /\ pc[c] = "done"
        /\ Count(c, "log") = 1
        /\ \E i \in 1..Len(io[c]) :
              io[c][i] = Ev("write", "Connection timeout. Disconnecting...", <<>>, TRUE)

\* the session has made the call of the given shape
Called(c, shape) == \E i \in 1..Len(io[c]) : Shape(io[c][i]) = shape

\* a read of the main loop of c ended on its deadline
MainReadTimedOut(c) ==
    \E i \in 1..Len(io[c]) : io[c][i].op = "read" /\ io[c][i].tag = "timeout"

\* handleConnection is past its call of logError
PastLogError(c) == pc[c] \in {"closeConn", "release", "done"}

\* C11: the timeout notice is written to the peer of a session if and only if
\* the session has ended because a read of its main loop exceeded the
\* deadline, and then once; it is never written when the session ends on end
\* of stream, on another I/O fault, on "bye"/"/quit", on a failure to open or
\* to append to the log, and never because the 200ms deadline of the overflow
\* recovery passed.
C11_NoticeIffMainReadTimeout ==
    \A c \in Conns :
        /\ Called(c, TimeoutWrite) <=> (MainReadTimedOut(c) /\ PastLogError(c))
        /\ MainReadTimedOut(c) <=> err[c] = "timeout"
        /\ Len(SelectSeq(io[c], LAMBDA e : Shape(e) = TimeoutWrite)) <= 1
        /\ err[c] \in {"nil", "EOF", "fault", "disconnect", "loginit", "logfail"}
              => ~Called(c, TimeoutWrite)

\* the 200ms deadline passed during a recovery with no notice written, and
\* the later timeout of a read of the main loop was notified
C11_Witness ==
    \E i, j, k \in 1..Len(io[1]) :
        /\ i < j /\ j < k
        /\ io[1][i] = Ev("flush", "timeout", <<>>, FALSE)
        /\ \A m \in 1..j : Shape(io[1][m]) # TimeoutWrite
        /\ io[1][j] = Ev("read", "timeout", <<>>, FALSE)
        /\ Shape(io[1][k]) = TimeoutWrite
        /\ pc[1] = "done"

\* the i-th call made for c is a read of the main loop that returned a line
\* shorter than the buffer with text in it: a line handleEcho dispatches
IsDispatchedRead(c, i) ==
    /\ IsLineRead(c, i)
    /\ ~FillsBuffer(io[c][i].data)
    /\ Core(io[c][i].data) # <<>>

\* what the peer was sent for the i-th call
Delivered(c, i) == SelectSeq(Answer(c, i), LAMBDA e : e.op = "write" /\ e.ok)

\* C12 as stated: for every dispatched line exactly one outcome applies, the
\* hello/bye response, the command response or the plain echo: the peer is
\* sent at most one message for the line, and a line that is a greeting or
\* starts with "/" is not also echoed back as plain text.
C12_OneOutcomePerLine ==
    \A c \in Conns : \A i \in 1..Len(io[c]) :
        IsDispatchedRead(c, i) =>
            LET line == Core(io[c][i].data)
            IN /\ Len(Delivered(c, i)) <= 1
               /\ ~IsPlain(line) =>
                     \A j \in 1..Len(Delivered(c, i)) :
                         Shape(Delivered(c, i)[j]) # TextWrite(line)

\* handleEcho is in flushExtraInput
InOverflow(c) == pc[c] = "flush"

\* C13: overflow recovery always ends: a session that is in flushExtraInput
\* eventually is back at the head of the read loop or has returned from
\* handleEcho, and then its stream is closed; this holds while the peer keeps
\* filling the buffer, because the 200ms deadline is armed once and a read
\* that is dropped leaves it as it is.
C13_RecoveryEnds ==
    /\ \A c \in Conns :
          InOverflow(c) ~> (pc[c] = "arm" \/ TearingDown(c) \/ pc[c] = "done")
    /\ \A c \in Conns : TearingDown(c) ~> (pc[c] = "done" /\ ~connOpen[c])
    /\ [][\A c \in Conns :
            (InOverflow(c) /\ InOverflow(c)' /\ deadline[c] # "200ms")
                => deadline'[c] # "200ms"]_vars

\* the recovery met its deadline after the peer had filled the buffer as
\* often as recorded, and the session is back at the head of its loop
C13_Witness ==
    /\ pc[1] = "arm"
    /\ DataReads(Conns) = MaxReads
    /\ Len(io[1]) >= 2
    /\ io[1][Len(io[1])] = Ev("flush", "timeout", <<>>, FALSE)
    /\ io[1][Len(io[1]) - 1].op = "flush"
    /\ FillsBuffer(io[1][Len(io[1]) - 1].data)

\* C14: every conn.Read of the main loop, the first one and the one after an
\* echo, a prompt or an overflow recovery alike, is called right after the
\* 30s deadline was armed, with no call in between, and runs under that
\* deadline: the 200ms deadline of a recovery, passed or not, never governs a
\* read of the main loop, and is in force only inside flushExtraInput.
C14_ReadUnderFreshDeadline ==
    \A c \in Conns :
        /\ \A i \in 1..Len(io[c]) :
              io[c][i].op = "read" => (i > 1 /\ Shape(io[c][i - 1]) = Arm30)
        /\ pc[c] = "read" =>
              /\ deadline[c] = "30s"
              /\ Shape(io[c][Len(io[c])]) = Arm30
        /\ \A i \in 1..Len(io[c]) :
              (\/ Shape(io[c][i]) = PromptWrite
               \/ io[c][i].op = "flush" /\ EndsFlush(io[c][i])
               \/ io[c][i].op = "write" /\ io[c][i].tag = "text" /\ io[c][i].ok
                    /\ Shape(io[c][i - 1]) = LogCall(io[c][i].data))
                 => /\ i = Len(io[c]) => pc[c] = "arm"
                    /\ i < Len(io[c]) => Shape(io[c][i + 1]) = Arm30

\* after a recovery that ended on its 200ms deadline, and after a prompt, the
\* 30s deadline was armed and the next read returned under it
C14_Witness ==
    \E i, j \in 1..Len(io[1]) :
        /\ io[1][i] = Ev("flush", "timeout", <<>>, FALSE)
        /\ i + 2 <= Len(io[1])
        /\ Shape(io[1][i + 1]) = Arm30
        /\ IsLineRead(1, i + 2)
        /\ Shape(io[1][j]) = PromptWrite
        /\ j > i
        /\ pc[1] = "read"
        /\ deadline[1] = "30s"

\* the reads of the main loop that filled the buffer
OversizeReads(c) ==
    {i \in 1..Len(io[c]) : IsLineRead(c, i) /\ FillsBuffer(io[c][i].data)}

\* the call uses bytes received from the peer: it hands a line to the
\* dispatcher, appends one to the log or writes text back
UsesInput(e) ==
    e.op \in {"dispatch", "log"} \/ (e.op = "write" /\ e.tag = "text")

\* the last read, of the main loop or of a recovery, made before the j-th call
LastReadBefore(c, j) ==
    LET rs == {i \in 1..(j - 1) : io[c][i].op \in {"read", "flush"}}
    IN IF rs = {} THEN 0 ELSE CHOOSE i \in rs : \A m \in rs : i >= m

\* C15: each overflow episode writes the oversize notice exactly once, however
\* many reads are dropped; and the bytes of the oversize read and of the reads
\* of the recovery, the short read that ends it included, are never handed to
\* the dispatcher, appended to the log or written back: every such call uses
\* the line of a read of the main loop that did not fill the buffer.
C15_OversizeDropped ==
    \A c \in Conns :
        LET over == OversizeReads(c)
        IN
        /\ Len(SelectSeq(io[c], LAMBDA e : Shape(e) = OversizeWrite))
              = Cardinality(over) - (IF pc[c] = "oversize" THEN 1 ELSE 0)
        /\ \A i \in over :
              LET ans == Answer(c, i)
              IN \A j \in 1..Len(ans) :
                    /\ ~UsesInput(ans[j])
                    /\ Shape(ans[j]) = OversizeWrite <=> j = 1
        /\ \A j \in 1..Len(io[c]) :
              UsesInput(io[c][j]) =>
                  LET i == LastReadBefore(c, j)
                  IN /\ i > 0
                     /\ IsLineRead(c, i)
                     /\ ~FillsBuffer(io[c][i].data)
                     /\ io[c][j].op \in {"dispatch", "log"}
                           => io[c][j].data = Core(io[c][i].data)

\* an oversize read and the short read " hi yo \n" that ended its recovery
\* were dropped: one notice, nothing dispatched, logged or echoed, and the
\* session reads again
C15_Witness ==
    /\ Len(io[1]) = 7
    /\ IsLineRead(1, 3) /\ FillsBuffer(io[1][3].data)
    /\ Shape(io[1][4]) = OversizeWrite
    /\ io[1][6] = Ev("flush", "data", <<" ", "h", "i", " ", "y", "o", " ", "\n">>, TRUE)
    /\ \A j \in 1..7 : ~UsesInput(io[1][j])
    /\ pc[1] = "read"

\* The table of the dispatcher, for a line with text in it: the response
\* written for it, if any, and whether the session is to be ended.  Words are
\* compared whatever the case of their letters.
TableResponse(line) ==
    LET word == ToLower(FirstWord(line))
    IN IF ToLower(line) = S_hello THEN << <<"write", "Hi there!", <<>>>> >>
       ELSE IF ToLower(line) = S_bye THEN << <<"write", "Goodbye!", <<>>>> >>
       ELSE IF line[1] # "/" THEN <<>>
       ELSE IF word = S_time THEN << <<"write", "Current time", <<>>>> >>
       ELSE IF word = S_quit THEN << <<"write", "Closing connection...", <<>>>> >>
       ELSE IF word = S_echo THEN <<EchoResponse(line)>>
       ELSE << <<"write", "Unknown command.", <<>>>> >>

\* C16: for every line with text in it that is handed to the dispatcher, what
\* the dispatcher does is what its table says, words compared whatever their
\* letter case: it writes the table's response and nothing else, and it
\* signals terminate if and only if the whole line is "bye" or the first
\* field of the line is "/quit"; "hello" gives "Hi there!", and a line that
\* starts with "/" and whose first field is none of /time, /quit and /echo
\* gives "Unknown command." and continues.
C16_DispatcherTable ==
    \A c \in Conns : \A j \in 1..Len(io[c]) :
        io[c][j].op = "dispatch" =>
            LET line == io[c][j].data
                n == Len(TableResponse(line))
                after == SubSeq(io[c], j + 1 + n, Len(io[c]))
            IN /\ line # <<>>
               /\ j + n <= Len(io[c])
               /\ \A k \in 1..n : Shape(io[c][j + k]) = TableResponse(line)[k]
               /\ IsQuit(line) =>
                     /\ IF after = <<>> THEN pc[c] = "closeLogger"
                        ELSE Shape(after[1]) = <<"closelog", "logger", <<>>>>
                     /\ err[c] = "disconnect"
               /\ ~IsQuit(line) =>
                     /\ IF after = <<>> THEN pc[c] = "log" /\ err[c] = "nil"
                        ELSE Shape(after[1]) = LogCall(line)
               /\ ToLower(line) = S_hello =>
                     Shape(io[c][j + 1]) = <<"write", "Hi there!", <<>>>>
               /\ (line[1] = "/" /\ ToLower(FirstWord(line)) \notin {S_time, S_quit, S_echo})
                     => (Shape(io[c][j + 1]) = <<"write", "Unknown command.", <<>>>>
                           /\ ~IsQuit(line))

\* "/QUIT\t bye" was dispatched and ended the session with the closing
\* message, where "/quitx yo" would have been an unknown command
C16_Witness ==
    \E j \in 1..Len(io[1]) :
        /\ Shape(io[1][j]) = DispatchCall(<<"/", "Q", "U", "I", "T", "\t", " ", "b", "y", "e">>)
        /\ j < Len(io[1])
        /\ Shape(io[1][j + 1]) = <<"write", "Closing connection...", <<>>>>
        /\ err[1] = "disconnect"
        /\ pc[1] = "done"

\* the read returned a line with text in it for which the dispatcher signals
\* continue
IsContinuedLine(e) ==
    /\ e.op = "read" /\ e.tag = "data"
    /\ ~FillsBuffer(e.data)
    /\ Core(e.data) # <<>>
    /\ ~IsQuit(Core(e.data))

\* the trimmed lines for which the dispatcher signals continue, as they came
ContinuedLines(c) ==
    LET rs == SelectSeq(io[c], IsContinuedLine)
    IN [k \in 1..Len(rs) |-> Core(rs[k].data)]

\* the lines the session has appended to its log, in order
LogEntries(c) ==
    LET logs == Calls(c, "log")
    IN [k \in 1..Len(logs) |-> logs[k].data]

\* the session is between the read of a line and its append to the log
LinePending(c) == pc[c] \in {"dispatch", "log"}

LoggerFailed(c) == io[c] # <<>> /\ io[c][1].op = "open" /\ ~io[c][1].ok

\* C18 (session): a session whose log file could not be opened makes no call
\* but to close its stream and to release its slot, each able to run: it
\* reads nothing, arms no deadline, writes no notice and closes no logger.
C18_Session ==
    \A c \in Conns :
        LoggerFailed(c) =>
            /\ IsPrefix(Shapes(Rest(c, 1)),
                        << <<"close", "conn", <<>>>>, <<"release", "slot", <<>>>> >>)
            /\ err[c] = "loginit"
            /\ ~fileOpen[c]
            /\ TearingDown(c) \/ pc[c] = "done"
            /\ TearingDown(c) => ENABLED Teardown(c)
            /\ pc[c] = "done" <=> Len(io[c]) = 3
            /\ pc[c] = "done" => (~connOpen[c] /\ c \notin HeldSlots)

\* C18 (others): the steps of such a session change nothing of another
\* connection, and leave the accept loop able to decide on a waiting one.
C18_Others ==
    \A c, d \in Conns :
        (c # d /\ LoggerFailed(c)' /\ io'[c] # io[c]) =>
            /\ pc'[d] = pc[d] /\ io'[d] = io[d] /\ err'[d] = err[d]
            /\ connOpen'[d] = connOpen[d] /\ fileOpen'[d] = fileOpen[d]
            /\ pc[d] = "accepted" => (ENABLED Main(d))'
            /\ pc[d] \in {"arm", "read", "dispatch", "log", "echo"} => (ENABLED Session(d))'

\* C18: if the log file cannot be opened at the start of a session, the
\* session ends at once, without a read on the stream and without a notice to
\* the peer; its stream is closed and its slot released, and the accept loop
\* and the other sessions are left running.
C18_LoggerInitFailureEndsSession == []C18_Session /\ [][C18_Others]_vars

\* a session whose log could not be opened is gone, its slot free again,
\* while another session reads on
C18_Witness ==
    \E c, d \in Conns :
        /\ LoggerFailed(c)
        /\ pc[c] = "done"
        /\ c \notin HeldSlots
        /\ pc[d] = "read"
        /\ d \in HeldSlots

\* C19 as stated: a write on the stream of a session that fails, be it of a
\* command response, of the prompt, of the oversize notice or of the echo,
\* ends the session: all the session does afterwards is to close its logger
\* and its stream and to release its slot; it writes no notice, and it neither
\* arms a deadline nor reads again.
C19_WriteFaultTerminates ==
    \A c \in Conns : \A i \in 1..Len(io[c]) :
        (io[c][i].op = "write" /\ ~io[c][i].ok) =>
            /\ \A j \in (i + 1)..Len(io[c]) :
                  io[c][j].op \in {"closelog", "close", "release"}
            /\ TearingDown(c) \/ pc[c] \in {"done", "rejected"}

\* the bytes are a whole line, terminator included, within the size limit
IsLineWithinLimit(b) ==
    /\ b # <<>>
    /\ b[Len(b)] = "\n"
    /\ NumBytes(b) <= maxMessageSize

\* C20 as stated: a line of at most maxMessageSize bytes, terminator
\* included, is within the size limit and is processed normally: it is
\* trimmed and, if text is left, handed to the dispatcher; the oversize notice
\* is written only for input that exceeds the limit, never for such a line.
C20_LineWithinLimitProcessed ==
    \A c \in Conns : \A i \in 1..Len(io[c]) :
        (IsLineRead(c, i) /\ IsLineWithinLimit(io[c][i].data)) =>
            /\ i = Len(io[c]) => pc[c] \in {"dispatch", "prompt"}
            /\ i < Len(io[c]) =>
                  /\ Shape(io[c][i + 1]) # OversizeWrite
                  /\ Core(io[c][i].data) # <<>> =>
                        Shape(io[c][i + 1]) = DispatchCall(Core(io[c][i].data))

\* the admitted sessions whose stream the server has not closed
OpenSessions == {c \in Conns : Admitted(c) /\ connOpen[c]}

\* the place in io[c] of the first call of kind op, 0 if there is none
FirstCall(c, op) ==
    LET is == {i \in 1..Len(io[c]) : io[c][i].op = op}
    IN IF is = {} THEN 0 ELSE CHOOSE i \in is : \A m \in is : i <= m

\* C21 (state): a session that has released its slot has closed its stream
\* before, and its logger before that if it opened one; so the admitted
\* sessions with an open stream are among the holders of a slot, and are at
\* most maxWorkers.
C21_State ==
    /\ \A c \in Conns :
          Count(c, "release") > 0 =>
              /\ ~connOpen[c] /\ ~fileOpen[c]
              /\ FirstCall(c, "close") > 0
              /\ FirstCall(c, "close") < FirstCall(c, "release")
              /\ (\E i \in 1..Len(io[c]) : io[c][i].op = "open" /\ io[c][i].ok) =>
                    /\ FirstCall(c, "closelog") > 0
                    /\ FirstCall(c, "closelog") < FirstCall(c, "close")
    /\ OpenSessions \subseteq HeldSlots
    /\ Cardinality(OpenSessions) <= Cardinality(HeldSlots)
    /\ Cardinality(HeldSlots) <= maxWorkers

\* C21 (step): the step that gives a slot back is taken by a session whose
\* stream and logger are closed already.
C21_Step ==
    \A c \in Conns :
        (c \in HeldSlots /\ c \notin HeldSlots') =>
            (~connOpen[c] /\ ~fileOpen[c] /\ workerPool' = workerPool - 1)

\* C21: teardown order.  The slot of a session is released only after its
\* logger and its stream have been closed; hence in every reachable state the
\* admitted sessions whose stream is still open are at most as many as the
\* held slots, and so at most the capacity.
C21_TeardownOrder == []C21_State /\ [][C21_Step]_vars

\* a session has closed its logger and its stream and still holds its slot,
\* while the other slot is held by a session with its stream open
C21_Witness ==
    \E c, d \in Conns :
        /\ pc[c] = "release"
        /\ ~connOpen[c] /\ ~fileOpen[c]
        /\ Count(c, "closelog") = 1
        /\ c \in HeldSlots
        /\ d \in OpenSessions
        /\ Cardinality(HeldSlots) = maxWorkers

\* the j-th call made for c is the plain echo of a line: a write of text that
\* is not the response of the dispatcher, whose writes follow its call
IsPlainEcho(c, j) ==
    /\ io[c][j].op = "write" /\ io[c][j].tag = "text"
    /\ j > 1
    /\ io[c][j - 1].op # "dispatch"

\* C22: log-before-echo.  Every plain echo of a line, delivered or not, comes
\* right after a successful append of that very line to the log; a failed
\* append ends the session with nothing written to the peer afterwards, so no
\* line is echoed without being logged; and a line whose echo fails stays
\* logged, the session ending there.
C22_LogBeforeEcho ==
    \A c \in Conns : \A j \in 1..Len(io[c]) :
        /\ IsPlainEcho(c, j) =>
              /\ io[c][j - 1] = Ev("log", "entry", io[c][j].data, TRUE)
              /\ ~io[c][j].ok =>
                    /\ err[c] = "fault"
                    /\ \A k \in (j + 1)..Len(io[c]) :
                          io[c][k].op \in {"closelog", "close", "release"}
        /\ (io[c][j].op = "log" /\ ~io[c][j].ok) =>
              /\ err[c] = "logfail"
              /\ TearingDown(c) \/ pc[c] = "done"
              /\ \A k \in (j + 1)..Len(io[c]) :
                    io[c][k].op \in {"closelog", "close", "release"}
        /\ (io[c][j].op = "log" /\ io[c][j].ok) =>
              /\ j = Len(io[c]) => pc[c] = "echo"
              /\ j < Len(io[c]) => Shape(io[c][j + 1]) = TextWrite(io[c][j].data)

\* one line was logged and echoed, the next was logged but its echo failed,
\* and the session is gone
C22_Witness ==
    \E i, j \in 1..Len(io[1]) :
        /\ i + 1 < j
        /\ io[1][i].op = "log" /\ io[1][i].ok
        /\ IsPlainEcho(1, i + 1) /\ io[1][i + 1].ok
        /\ io[1][j].op = "log" /\ io[1][j].ok
        /\ j < Len(io[1])
        /\ IsPlainEcho(1, j + 1) /\ ~io[1][j + 1].ok
        /\ pc[1] = "done"

====
